---- MODULE Spec2Model ----
(***************************************************************************)
(* GitLab tool server: the HTTP gateway (fetchFromGitLabAPI), the project  *)
(* path normalizer (extractProjectPath) and the tool operations globFiles, *)
(* readFile and searchCode, as state machines over the remote's answers.   *)
(*                                                                         *)
(* Strings that the code inspects by prefix or suffix are sequences of     *)
(* tokens; every token is a fixed run of characters, no token is a prefix  *)
(* of another, and only the token "/" contains a slash, so a prefix or     *)
(* suffix test on the characters is the same test on the tokens.           *)
(***************************************************************************)
EXTENDS Integers, Sequences, FiniteSets, TLC

VARIABLES
    pc,         \* where the running operation stands
    tool,       \* the operation that was called
    args,       \* its arguments
    page,       \* globFiles: the page to request next
    hasMore,    \* globFiles: the loop condition
    allFiles,   \* globFiles: the blob paths collected so far
    inflight,   \* page numbers of calls issued and not yet settled
    requested,  \* history: page numbers in the order they were requested
    received,   \* history: what fetchFromGitLabAPI gave for each call
    net,        \* the outcome of the last network call
    outcome,    \* what the operation returned or threw
    built       \* number of pieces a project string was put together from

vars == <<pc, tool, args, page, hasMore, allFiles, inflight, requested,
          received, net, outcome, built>>

(***************************************************************************)
(* Bounds of the model.                                                    *)
(***************************************************************************)
MaxPages == 3
MaxLen == 5
MaxLines == 3
MaxItems == 3

(***************************************************************************)
(* Values that stand for JavaScript's undefined in the records below.      *)
(***************************************************************************)
NoValue == "none"
\* An optional value: data, or undefined.
NoData == [present |-> FALSE, value |-> <<>>]
SomeData(v) == [present |-> TRUE, value |-> v]

Min(a, b) == IF a < b THEN a ELSE b
Max(a, b) == IF a > b THEN a ELSE b

(***************************************************************************)
(* The remote's answers.  A tree page served for page number pg holds n    *)
(* entries; entry i has a path unique to (pg, i), a type and a file        *)
(* extension fixed by the page's shape.                                    *)
(***************************************************************************)
PageSize == 100

\* Shapes of a page: its length, which entries are trees, which are .ts.
PageShapes == {<<0, "blobs", "ts">>, <<2, "blobs", "alt">>, <<3, "mixed", "alt">>,
               <<37, "mixed", "ts">>, <<PageSize, "blobs", "alt">>,
               <<PageSize, "mixed", "alt">>}

TreeItem(pg, i, ts, es) ==
    [path |-> <<pg, i, IF es = "ts" \/ i % 2 = 1 THEN "ts" ELSE "js">>,
     type |-> IF ts = "mixed" /\ i % 3 = 0 THEN "tree" ELSE "blob"]

TreePage(pg, n, ts, es) == [i \in 1..n |-> TreeItem(pg, i, ts, es)]

TreePages(pg) == {TreePage(pg, sh[1], sh[2], sh[3]) : sh \in PageShapes}

\* A response body: its text as lines (byte length of each line; the empty
\* text is the single empty line) and what JSON.parse makes of it (a value,
\* or a SyntaxError).
EmptyText == <<0>>
Malformed == [parses |-> FALSE, value |-> <<>>]
Json(v) == [parses |-> TRUE, value |-> v]
JsonBody(v) == [lines |-> <<1>>, json |-> Json(v)]
EmptyBody == [lines |-> EmptyText, json |-> Malformed]
BadJsonBody == [lines |-> <<1>>, json |-> Malformed]

\* Values a rejected fetch() or response.text() can carry: Error instances
\* (name, message) and thrown values that are no Error (their string form).
AbortError == [isError |-> TRUE, name |-> "AbortError", message |-> "aborted", str |-> "AbortError: aborted"]
TypeError == [isError |-> TRUE, name |-> "TypeError", message |-> "fetch failed", str |-> "TypeError: fetch failed"]
ThrownString == [isError |-> FALSE, name |-> NoValue, message |-> NoValue, str |-> "gave up"]
NoThrown == [isError |-> FALSE, name |-> NoValue, message |-> NoValue, str |-> NoValue]
Thrown == {AbortError, TypeError, ThrownString}

HttpResponse(st, ctJson, body) ==
    [kind |-> "response", status |-> st[1], statusText |-> st[2],
     ctJson |-> ctJson, body |-> body, thrown |-> NoThrown]

\* fetch() rejects, or the response arrives and response.text() rejects.
NetThrow(at, e) ==
    [kind |-> at, status |-> 0, statusText |-> "", ctJson |-> FALSE,
     body |-> EmptyBody, thrown |-> e]

NoNet == NetThrow("none", NoThrown)

NetOutcomes(statuses, bodies) ==
    {HttpResponse(st, ct, b) : st \in statuses, ct \in BOOLEAN, b \in bodies}
        \cup {NetThrow(at, e) : at \in {"fetchThrows", "textThrows"}, e \in Thrown}

(***************************************************************************)
(* fetchFromGitLabAPI: the result it returns, or the value it throws.      *)
(***************************************************************************)
ResponseOk(status) == status >= 200 /\ status <= 299

Returned(ok, status, statusText, text, data) ==
    [kind |-> "return", ok |-> ok, status |-> status, statusText |-> statusText,
     text |-> text, data |-> data, thrown |-> NoThrown]

Rethrown(e) ==
    [kind |-> "throw", ok |-> FALSE, status |-> 0, statusText |-> "",
     text |-> <<>>, data |-> NoData, thrown |-> e]

IsTruthyText(lines) == lines # EmptyText

ParsedDataAnyStatus(n) ==
    IF n.ctJson /\ IsTruthyText(n.body.lines) /\ n.body.json.parses
    THEN SomeData(n.body.json.value)
    ELSE NoData

ParsedData(n) ==
    IF ResponseOk(n.status) /\ n.ctJson /\ IsTruthyText(n.body.lines)
                            /\ n.body.json.parses
    THEN SomeData(n.body.json.value)
    ELSE NoData

IsAbortNever(e) == FALSE
IsAbort(e) == e.isError /\ e.name = "AbortError"

CatchResultFixedText(e) ==
    [kind |-> "return", ok |-> FALSE, status |-> 0,
     statusText |-> "Network error", text |-> <<e.str>>,
     data |-> NoData, thrown |-> NoThrown]

\* The catch block's result.  statusText is a string; text is the message or
\* String(error), kept as the one-element text <<s>>.
CatchResult(e) ==
    [kind |-> "return", ok |-> FALSE, status |-> 0,
     statusText |-> IF e.isError THEN e.message ELSE "Network error",
     text |-> <<IF e.isError THEN e.message ELSE e.str>>,
     data |-> NoData, thrown |-> NoThrown]

fetchFromGitLabAPI(n) ==
    IF n.kind = "response"
    THEN Returned(ResponseOk(n.status), n.status, n.statusText, n.body.lines,
                  ParsedData(n))
    ELSE IF IsAbort(n.thrown) THEN Rethrown(n.thrown)
         ELSE CatchResult(n.thrown)

(***************************************************************************)
(* extractProjectPath: project.replace(/\.git$/, '') and then              *)
(* .replace(/^https?:\/\/[^/]+\//, '').  The token "https:" stands for     *)
(* "http:" and "https:" alike.                                             *)
(***************************************************************************)
Tokens == {"https:", "/", ".git", "a"}

EndsWithGit(p) == Len(p) >= 1 /\ p[Len(p)] = ".git"

StripGitSuffixRepeated(p) ==
    IF Len(p) >= 2 /\ p[Len(p)] = ".git" /\ p[Len(p) - 1] = ".git"
    THEN SubSeq(p, 1, Len(p) - 2)
    ELSE IF EndsWithGit(p) THEN SubSeq(p, 1, Len(p) - 1) ELSE p

StripGitSuffix(p) == IF EndsWithGit(p) THEN SubSeq(p, 1, Len(p) - 1) ELSE p

\* Length of the match of ^https?:\/\/[^/]+\/ at the start of p, 0 if none:
\* the scheme, two slashes, one or more slash-free characters, a slash.
UrlPrefixLen(p) ==
    IF Len(p) >= 5 /\ p[1] = "https:" /\ p[2] = "/" /\ p[3] = "/" /\ p[4] # "/"
       /\ \E k \in 5..Len(p) : p[k] = "/"
    THEN CHOOSE k \in 5..Len(p) : p[k] = "/" /\ \A j \in 5..(k - 1) : p[j] # "/"
    ELSE 0

StripUrlPrefix(p) == SubSeq(p, UrlPrefixLen(p) + 1, Len(p))

extractProjectPath(project) == StripUrlPrefix(StripGitSuffix(project))

(***************************************************************************)
(* Tool arguments and results.                                             *)
(***************************************************************************)
\* An optional numeric argument and its destructuring default.
NotGiven == [given |-> FALSE, value |-> 0]
Given(v) == [given |-> TRUE, value |-> v]
Default(opt, d) == IF opt.given THEN opt.value ELSE d

\* Array.prototype.slice(start, end) on a sequence: negative indices count
\* from the end, both are clamped to the length.
JsIndex(len, k) == IF k < 0 THEN Max(len + k, 0) ELSE Min(k, len)
JsSlice(s, start, end) ==
    SubSeq(s, JsIndex(Len(s), start) + 1, JsIndex(Len(s), end))

\* An Error the tool throws: its message's parts.
ErrorOf(msg, status, statusText, sizeKB, totalLines) ==
    [msg |-> msg, status |-> status, statusText |-> statusText,
     sizeKB |-> sizeKB, totalLines |-> totalLines]
NoError == ErrorOf(NoValue, 0, "", 0, 0)

\* `${status} ${statusText || 'Unknown error'}`
FailedError(msg, r) ==
    ErrorOf(msg, r.status, IF r.statusText = "" THEN "Unknown error" ELSE r.statusText, 0, 0)

NoArgs == [project |-> <<>>, filePattern |-> NoValue, limit |-> NotGiven,
           offset |-> NotGiven]

NoOutcome == [status |-> "none", value |-> <<>>, total |-> 0, error |-> NoError, thrown |-> NoThrown]
ReturnValue(v, n) == [status |-> "returned", value |-> v, total |-> n, error |-> NoError, thrown |-> NoThrown]
ThrowError(e) == [status |-> "raised", value |-> <<>>, total |-> 0, error |-> e, thrown |-> NoThrown]
Propagate(t) == [status |-> "raised", value |-> <<>>, total |-> 0, error |-> NoError, thrown |-> t]

Projects == {<<"https:", "/", "/", "a", "/", "a", "/", "a", ".git">>}

(***************************************************************************)
(* globFiles                                                               *)
(***************************************************************************)
Patterns == {"**/*.ts", "**"}
GlobLimits == {NotGiven, Given(0), Given(1), Given(2)}
GlobOffsets == {NotGiven, Given(1)}

\* picomatch(filePattern)(path) for the two patterns above.
isMatch(filePattern, path) == filePattern = "**" \/ path[3] = "ts"

\* response.data.filter((item) => item.type === 'blob').map((item) => item.path)
BlobPaths(data) ==
    LET blobs == SelectSeq(data, LAMBDA item : item.type = "blob")
    IN [i \in 1..Len(blobs) |-> blobs[i].path]

matchedFiles(files, filePattern) ==
    SelectSeq(files, LAMBDA p : isMatch(filePattern, p))

paginatedFilesEndAtLimit(matched, limit, offset) ==
    IF limit # 0
    THEN JsSlice(matched, offset, limit)
    ELSE JsSlice(matched, offset, Len(matched))

paginatedFiles(matched, limit, offset) ==
    IF limit # 0
    THEN JsSlice(matched, offset, offset + limit)
    ELSE JsSlice(matched, offset, Len(matched))

\* `/${projectPath}/${path}`
AbsPath(projectPath, path) == <<"/", projectPath, "/", path>>

GlobResult(files, a) ==
    LET projectPath == extractProjectPath(a.project)
        matched == matchedFiles(files, a.filePattern)
        sliced == paginatedFiles(matched, Default(a.limit, 100), Default(a.offset, 0))
    IN [i \in 1..Len(sliced) |-> AbsPath(projectPath, sliced[i])]

hasMoreAfterNonEmpty(data) == Len(data) > 0
hasMoreAfter(data) == Len(data) = PageSize

PageFailed(r) == ~r.ok \/ ~r.data.present

FailureAlwaysFatal(pg) == TRUE
\* A failed page throws only `if (page === 1)`.
FailureIsFatal(pg) == pg = 1

NextPageSame(pg) == pg
\* page++
NextPage(pg) == pg + 1

GlobStart(a) ==
    /\ pc = "idle"
    /\ pc' = "glob_loop"
    /\ tool' = "glob_files"
    /\ args' = a
    /\ page' = 1
    /\ hasMore' = TRUE
    /\ allFiles' = <<>>
    /\ UNCHANGED <<inflight, requested, received, net, outcome, built>>

\* The loop test and the call of fetchFromGitLabAPI for `page`.
GlobRequest ==
    /\ pc = "glob_loop"
    /\ hasMore
    /\ page <= MaxPages
    /\ pc' = "glob_wait"
    /\ inflight' = inflight \cup {page}
    /\ requested' = Append(requested, page)
    /\ UNCHANGED <<tool, args, page, hasMore, allFiles, received, net, outcome, built>>

\* The awaited call settles with network outcome n; the rest of the loop body.
GlobResponse(n) ==
    /\ pc = "glob_wait"
    /\ inflight' = inflight \ {page}
    /\ net' = n
    /\ LET r == fetchFromGitLabAPI(n)
       IN /\ received' = Append(received, r)
          /\ IF r.kind = "throw"
             THEN /\ outcome' = Propagate(r.thrown)
                  /\ pc' = "done"
                  /\ UNCHANGED <<page, hasMore, allFiles>>
             ELSE IF PageFailed(r)
             THEN /\ IF FailureIsFatal(page)
                     THEN /\ outcome' = ThrowError(FailedError("Failed to fetch files", r))
                          /\ pc' = "done"
                     ELSE /\ outcome' = outcome
                          /\ pc' = "glob_post"
                  /\ UNCHANGED <<page, hasMore, allFiles>>
             ELSE /\ allFiles' = allFiles \o BlobPaths(r.data.value)
                  /\ hasMore' = hasMoreAfter(r.data.value)
                  /\ page' = NextPage(page)
                  /\ pc' = IF hasMoreAfter(r.data.value) THEN "glob_loop" ELSE "glob_post"
                  /\ outcome' = outcome
    /\ UNCHANGED <<tool, args, requested, built>>

\* After the loop: match, slice, prefix, return.
GlobFinish ==
    /\ pc = "glob_post"
    /\ outcome' = ReturnValue(GlobResult(allFiles, args), 0)
    /\ pc' = "done"
    /\ UNCHANGED <<tool, args, page, hasMore, allFiles, inflight, requested, received, net, built>>

GlobArgs ==
    {[project |-> pr, filePattern |-> fp, limit |-> l, offset |-> o] :
        pr \in Projects, fp \in Patterns, l \in GlobLimits, o \in GlobOffsets}

\* What the tree endpoint's call can settle with for page pg.
TreeNet(pg) ==
    {HttpResponse(<<200, "OK">>, TRUE, JsonBody(d)) : d \in TreePages(pg)}
        \cup {HttpResponse(<<200, "OK">>, TRUE, b) : b \in {EmptyBody, BadJsonBody}}
        \cup {HttpResponse(<<200, "OK">>, FALSE, JsonBody(TreePage(pg, 2, "blobs", "ts"))),
              HttpResponse(<<404, "Not Found">>, TRUE, JsonBody(<<>>)),
              HttpResponse(<<500, "">>, FALSE, EmptyBody),
              NetThrow("textThrows", TypeError)}
        \cup {NetThrow("fetchThrows", e) : e \in Thrown}

(***************************************************************************)
(* readFile                                                                *)
(***************************************************************************)
NoRange == [given |-> FALSE, start |-> 0, end |-> 0]
Range(s, e) == [given |-> TRUE, start |-> s, end |-> e]

IsPrefix(x, s) == Len(x) <= Len(s) /\ SubSeq(s, 1, Len(x)) = x
DropPrefix(x, s) == IF IsPrefix(x, s) THEN SubSeq(s, Len(x) + 1, Len(s)) ELSE s

\* The path normalization: file:// off, `/${projectPath}` off, one slash off.
relativePath(path, projectPath) ==
    DropPrefix(<<"/">>,
        DropPrefix(<<"/">> \o projectPath,
            DropPrefix(<<"file:", "/", "/">>, path)))

\* content.split('\n'): a text is kept as its lines, '' as one empty line.
SplitLines(text) == text

startLine(lines, range) == IF range.given THEN Max(1, range.start) ELSE 1
endLine(lines, range) == IF range.given THEN Min(Len(lines), range.end) ELSE Len(lines)

selectedLines(lines, range) ==
    JsSlice(lines, startLine(lines, range) - 1, endLine(lines, range))

RECURSIVE JoinedBytes(_)
\* Buffer.byteLength(selectedLines.join('\n'), 'utf8')
JoinedBytes(sel) ==
    IF sel = <<>> THEN 0
    ELSE IF Len(sel) = 1 THEN sel[1]
    ELSE JoinedBytes(SubSeq(sel, 1, Len(sel) - 1)) + 1 + sel[Len(sel)]

ContentTooLargeFrom(contentSize) == contentSize >= 128 * 1024
ContentTooLarge(contentSize) == contentSize > 128 * 1024

\* Math.round(contentSize / 1024)
RoundKB(contentSize) == (2 * contentSize + 1024) \div 2048

\* `${startLine + idx}: ${line}` for each selected line.
numberedLines(sel, first) == [i \in 1..Len(sel) |-> <<first + i - 1, ": ", sel[i]>>]

ReadOutcome(r, a) ==
    LET projectPath == extractProjectPath(a.project)
        lines == SplitLines(r.text)
        sel == selectedLines(lines, a.read_range)
        contentSize == JoinedBytes(sel)
    IN IF r.kind = "throw" THEN Propagate(r.thrown)
       ELSE IF ~r.ok THEN ThrowError(FailedError("Failed to read file", r))
       ELSE IF ContentTooLarge(contentSize)
       THEN ThrowError(ErrorOf("File is too large", 0, "", RoundKB(contentSize), Len(lines)))
       ELSE ReturnValue(
              [absolutePath |-> AbsPath(projectPath, relativePath(a.path, projectPath)),
               content |-> numberedLines(sel, startLine(lines, a.read_range))], 0)

\* readFile up to its call of fetchFromGitLabAPI.
ReadRequest(a) ==
    /\ pc = "idle"
    /\ pc' = "read_wait"
    /\ tool' = "read_file"
    /\ args' = a
    /\ inflight' = inflight \cup {1}
    /\ requested' = Append(requested, 1)
    /\ UNCHANGED <<page, hasMore, allFiles, received, net, outcome, built>>

\* The call settles with network outcome n; the rest of readFile.
ReadResponse(n) ==
    /\ pc = "read_wait"
    /\ pc' = "done"
    /\ inflight' = inflight \ {1}
    /\ net' = n
    /\ received' = Append(received, fetchFromGitLabAPI(n))
    /\ outcome' = ReadOutcome(fetchFromGitLabAPI(n), args)
    /\ UNCHANGED <<tool, args, page, hasMore, allFiles, requested, built>>

LineLens == {0, 1, 65535, 65536, 131072}

RECURSIVE FilesOfLen(_)
FilesOfLen(k) ==
    IF k = 0 THEN {<<>>}
    ELSE {Append(f, l) : f \in FilesOfLen(k - 1), l \in LineLens}

\* The texts the raw-file endpoint serves: 1..MaxLines lines.
Files == UNION {FilesOfLen(k) : k \in 1..MaxLines}

RangeEnds == (0 - 1)..(MaxLines + 2)
Ranges == {NoRange} \cup {Range(s, e) : s \in RangeEnds, e \in RangeEnds}

ReadPaths == {<<"a">>, <<"file:", "/", "/", "/", "a", "/", "a", "/", "a">>}

ReadArgs ==
    {[project |-> <<"https:", "/", "/", "a", "/", "a", "/", "a", ".git">>,
      path |-> pa, read_range |-> rg] : pa \in ReadPaths, rg \in Ranges}

ReadNet ==
    {HttpResponse(<<200, "OK">>, FALSE, [lines |-> f, json |-> Malformed]) : f \in Files}
        \cup {HttpResponse(<<404, "Not Found">>, TRUE, BadJsonBody),
              HttpResponse(<<500, "">>, FALSE, EmptyBody)}
        \cup {NetThrow("fetchThrows", e) : e \in Thrown}

NextRead ==
    \/ pc = "idle" /\ \E a \in ReadArgs : ReadRequest(a)
    \/ pc = "read_wait" /\ \E n \in ReadNet : ReadResponse(n)

(***************************************************************************)
(* searchCode                                                              *)
(***************************************************************************)
\* A match's data: its text without the surrounding whitespace (an id and a
\* length in characters) and whether whitespace surrounds it.  '' is the
\* only falsy one.
Text(id, len, padded) == [id |-> id, len |-> len, padded |-> padded, marker |-> FALSE]
EmptyData == Text("", 0, FALSE)
SearchData == {EmptyData, Text("", 0, TRUE), Text("x", 5, TRUE),
               Text("y", 2048, FALSE), Text("z", 2049, FALSE)}
SearchPaths == {"f", "g"}

IsTruthyData(d) == d.len > 0 \/ d.padded
Trim(d) == [d EXCEPT !.padded = FALSE]
\* `${fragment.slice(0, 2048)}... (truncated)` when longer than 2048.
Truncate(d) == IF d.len > 2048 THEN [d EXCEPT !.len = 2048, !.marker = TRUE] ELSE d
Fragment(d) == Truncate(Trim(d))

HasFile(fileMap, file) == \E k \in 1..Len(fileMap) : fileMap[k].file = file

PushChunkAlways(fileMap, file, d) ==
    [k \in 1..Len(fileMap) |->
        IF fileMap[k].file = file
        THEN [fileMap[k] EXCEPT !.chunks = Append(@, Fragment(d))]
        ELSE fileMap[k]]

\* chunks.push(fragment) on the file's entry, `if (item.data)`.
PushChunk(fileMap, file, d) ==
    [k \in 1..Len(fileMap) |->
        IF fileMap[k].file = file /\ IsTruthyData(d)
        THEN [fileMap[k] EXCEPT !.chunks = Append(@, Fragment(d))]
        ELSE fileMap[k]]

GroupItemNoLookup(fileMap, projectPath, item) ==
    PushChunk(Append(fileMap, [file |-> AbsPath(projectPath, item.path), chunks |-> <<>>]),
              AbsPath(projectPath, item.path), item.data)

\* One pass of the grouping loop: the Map keeps its keys in insertion order.
GroupItem(fileMap, projectPath, item) ==
    LET absPath == AbsPath(projectPath, item.path)
        withKey == IF HasFile(fileMap, absPath) THEN fileMap
                   ELSE Append(fileMap, [file |-> absPath, chunks |-> <<>>])
    IN PushChunk(withKey, absPath, item.data)

RECURSIVE GroupByFile(_, _)
GroupByFile(data, projectPath) ==
    IF data = <<>> THEN <<>>
    ELSE GroupItem(GroupByFile(SubSeq(data, 1, Len(data) - 1), projectPath),
                   projectPath, data[Len(data)])

SearchOutcome(r, a) ==
    LET data == IF r.data.present THEN r.data.value ELSE <<>>
    IN IF r.kind = "throw" THEN Propagate(r.thrown)
       ELSE IF ~r.ok THEN ThrowError(FailedError("Failed to search code", r))
       ELSE IF Len(data) = 0 THEN ReturnValue(<<>>, 0)
       ELSE ReturnValue(GroupByFile(data, extractProjectPath(a.project)), Len(data))

\* perPage = Math.min(limit, 100); page = Math.floor(offset / perPage) + 1
SearchPage(a) ==
    (Default(a.offset, 0) \div Min(Default(a.limit, 25), 100)) + 1

\* searchCode up to its call of fetchFromGitLabAPI.
SearchRequest(a) ==
    /\ pc = "idle"
    /\ pc' = "search_wait"
    /\ tool' = "search_code"
    /\ args' = a
    /\ page' = SearchPage(a)
    /\ inflight' = inflight \cup {SearchPage(a)}
    /\ requested' = Append(requested, SearchPage(a))
    /\ UNCHANGED <<hasMore, allFiles, received, net, outcome, built>>

\* The call settles with network outcome n; the rest of searchCode.
SearchResponse(n) ==
    /\ pc = "search_wait"
    /\ pc' = "done"
    /\ inflight' = inflight \ {page}
    /\ net' = n
    /\ received' = Append(received, fetchFromGitLabAPI(n))
    /\ outcome' = SearchOutcome(fetchFromGitLabAPI(n), args)
    /\ UNCHANGED <<tool, args, page, hasMore, allFiles, requested, built>>

SearchItems == {[path |-> f, data |-> d] : f \in SearchPaths, d \in SearchData}

RECURSIVE SearchPagesOfLen(_)
SearchPagesOfLen(k) ==
    IF k = 0 THEN {<<>>}
    ELSE {Append(pg, it) : pg \in SearchPagesOfLen(k - 1), it \in SearchItems}

\* The pages the search endpoint serves: 0..MaxItems matches.
SearchPages == UNION {SearchPagesOfLen(k) : k \in 0..MaxItems}

SearchArgs ==
    {[project |-> <<"https:", "/", "/", "a", "/", "a", "/", "a", ".git">>,
      query |-> "q", limit |-> l, offset |-> o] :
        l \in {NotGiven, Given(2)}, o \in {NotGiven, Given(5)}}

SearchNet ==
    {HttpResponse(<<200, "OK">>, TRUE, JsonBody(d)) : d \in SearchPages}
        \cup {HttpResponse(<<200, "OK">>, FALSE, JsonBody(<<>>)),
              HttpResponse(<<404, "Not Found">>, TRUE, BadJsonBody)}
        \cup {NetThrow("fetchThrows", e) : e \in Thrown}

NextSearch ==
    \/ pc = "idle" /\ \E a \in SearchArgs : SearchRequest(a)
    \/ pc = "search_wait" /\ \E n \in SearchNet : SearchResponse(n)

(***************************************************************************)
(* listDirectory                                                           *)
(***************************************************************************)
DirNames == {"a", "m", "z"}
DirItems == {[name |-> nm, type |-> ty] : nm \in DirNames, ty \in {"blob", "tree"}}

\* item.type === 'tree' ? `${item.name}/` : item.name
DirEntry(item) == [name |-> item.name, slash |-> item.type = "tree"]

\* a.localeCompare(b) < 0 on the names above.
NameRank(nm) == CASE nm = "a" -> 1 [] nm = "m" -> 2 [] OTHER -> 3

\* The sort's comparator is negative: directories first, then by name.
EntryBefore(x, y) ==
    \/ x.slash /\ ~y.slash
    \/ x.slash = y.slash /\ NameRank(x.name) < NameRank(y.name)

RECURSIVE SortEntries(_)
\* entries.sort(...), a stable sort.
SortEntries(s) ==
    IF s = <<>> THEN <<>>
    ELSE LET e == s[Len(s)]
             front == SortEntries(SubSeq(s, 1, Len(s) - 1))
         IN SelectSeq(front, LAMBDA x : ~EntryBefore(e, x)) \o <<e>>
                \o SelectSeq(front, LAMBDA x : EntryBefore(e, x))

ListDirectoryOutcome(r, a) ==
    IF r.kind = "throw" THEN Propagate(r.thrown)
    ELSE IF PageFailed(r) THEN ThrowError(FailedError("Failed to list directory", r))
    ELSE ReturnValue(
           SortEntries([i \in 1..Len(r.data.value) |-> DirEntry(r.data.value[i])]), 0)

\* listDirectory up to its call of fetchFromGitLabAPI.
ListDirectoryRequest(a) ==
    /\ pc = "idle"
    /\ pc' = "list_directory_wait"
    /\ tool' = "list_directory"
    /\ args' = a
    /\ inflight' = inflight \cup {1}
    /\ requested' = Append(requested, 1)
    /\ UNCHANGED <<page, hasMore, allFiles, received, net, outcome, built>>

\* The call settles with network outcome n; the rest of listDirectory.
ListDirectoryResponse(n) ==
    /\ pc = "list_directory_wait"
    /\ pc' = "done"
    /\ inflight' = inflight \ {1}
    /\ net' = n
    /\ received' = Append(received, fetchFromGitLabAPI(n))
    /\ outcome' = ListDirectoryOutcome(fetchFromGitLabAPI(n), args)
    /\ UNCHANGED <<tool, args, page, hasMore, allFiles, requested, built>>

RECURSIVE DirPagesOfLen(_)
DirPagesOfLen(k) ==
    IF k = 0 THEN {<<>>}
    ELSE {Append(pg, it) : pg \in DirPagesOfLen(k - 1), it \in DirItems}

\* The listings the tree endpoint serves for one directory: 0..MaxItems entries.
DirPages == UNION {DirPagesOfLen(k) : k \in 0..MaxItems}

ListDirectoryArgs ==
    {[project |-> pr, path |-> pa, limit |-> l] :
        pr \in Projects, pa \in {<<>>, <<"a">>}, l \in {NotGiven, Given(2)}}

\* What a single call can settle with, for a set of JSON payloads.
SingleCallNet(payloads) ==
    {HttpResponse(<<200, "OK">>, TRUE, JsonBody(d)) : d \in payloads}
        \cup {HttpResponse(<<200, "OK">>, TRUE, BadJsonBody),
              HttpResponse(<<200, "OK">>, FALSE, JsonBody(<<>>)),
              HttpResponse(<<404, "Not Found">>, TRUE, JsonBody(<<>>)),
              HttpResponse(<<500, "">>, FALSE, EmptyBody),
              NetThrow("textThrows", TypeError)}
        \cup {NetThrow("fetchThrows", e) : e \in Thrown}

(***************************************************************************)
(* listProjects                                                            *)
(***************************************************************************)
GitLabProject(id, description) ==
    [id |-> id, name |-> <<"name", id>>, path_with_namespace |-> <<"g", "/", id>>,
     description |-> description, web_url |-> <<"url", id>>,
     default_branch |-> "main", visibility |-> "private",
     last_activity_at |-> <<"t", id>>]

GitLabProjects ==
    {GitLabProject(id, ds) : id \in {1, 2}, ds \in {"null", "text"}}

ProjectInfo(project) ==
    [id |-> project.id, name |-> project.name, path |-> project.path_with_namespace,
     description |-> project.description, url |-> project.web_url,
     defaultBranch |-> project.default_branch, visibility |-> project.visibility,
     lastActivity |-> project.last_activity_at]

\* perPage = Math.min(limit, 100); page = Math.floor(offset / perPage) + 1
ListProjectsPage(a) ==
    (Default(a.offset, 0) \div Min(Default(a.limit, 30), 100)) + 1

ListProjectsOutcome(r, a) ==
    IF r.kind = "throw" THEN Propagate(r.thrown)
    ELSE IF PageFailed(r) THEN ThrowError(FailedError("Failed to list projects", r))
    ELSE ReturnValue([i \in 1..Len(r.data.value) |-> ProjectInfo(r.data.value[i])], 0)

\* listProjects up to its call of fetchFromGitLabAPI.
ListProjectsRequest(a) ==
    /\ pc = "idle"
    /\ pc' = "list_projects_wait"
    /\ tool' = "list_projects"
    /\ args' = a
    /\ page' = ListProjectsPage(a)
    /\ inflight' = inflight \cup {ListProjectsPage(a)}
    /\ requested' = Append(requested, ListProjectsPage(a))
    /\ UNCHANGED <<hasMore, allFiles, received, net, outcome, built>>

\* The call settles with network outcome n; the rest of listProjects.
ListProjectsResponse(n) ==
    /\ pc = "list_projects_wait"
    /\ pc' = "done"
    /\ inflight' = inflight \ {page}
    /\ net' = n
    /\ received' = Append(received, fetchFromGitLabAPI(n))
    /\ outcome' = ListProjectsOutcome(fetchFromGitLabAPI(n), args)
    /\ UNCHANGED <<tool, args, page, hasMore, allFiles, requested, built>>

RECURSIVE ProjectPagesOfLen(_)
ProjectPagesOfLen(k) ==
    IF k = 0 THEN {<<>>}
    ELSE {Append(pg, it) : pg \in ProjectPagesOfLen(k - 1), it \in GitLabProjects}

\* The pages the project index serves: 0..MaxItems projects.
ProjectPages == UNION {ProjectPagesOfLen(k) : k \in 0..MaxItems}

ListProjectsArgs ==
    {[search |-> sq, limit |-> l, offset |-> o] :
        sq \in {NoValue, "q"}, l \in {NotGiven, Given(2)}, o \in {NotGiven, Given(5)}}

(***************************************************************************)
(* One call of fetchFromGitLabAPI on its own.                              *)
(***************************************************************************)
GatewayStatuses == {<<200, "OK">>, <<201, "Created">>, <<204, "">>, <<302, "Found">>,
                    <<404, "Not Found">>, <<500, "">>}

GatewayBodies ==
    {EmptyBody, BadJsonBody, [lines |-> <<3, 0, 2>>, json |-> Malformed],
     [lines |-> <<4, 4>>, json |-> Json(<<>>)]}
        \cup {JsonBody(d) : d \in TreePages(1)}

GatewayNet == NetOutcomes(GatewayStatuses, GatewayBodies)

GatewayCall(n) ==
    /\ pc = "idle"
    /\ pc' = "done"
    /\ tool' = "gateway"
    /\ net' = n
    /\ received' = <<fetchFromGitLabAPI(n)>>
    /\ UNCHANGED <<args, page, hasMore, allFiles, inflight, requested, outcome, built>>

Init ==
    /\ pc = "idle"
    /\ tool = NoValue
    /\ args = NoArgs
    /\ page = 1
    /\ hasMore = TRUE
    /\ allFiles = <<>>
    /\ inflight = {}
    /\ requested = <<>>
    /\ received = <<>>
    /\ net = NoNet
    /\ outcome = NoOutcome
    /\ built = 0

Next ==
    \/ pc = "idle" /\ \E a \in GlobArgs : GlobStart(a)
    \/ GlobRequest
    \/ pc = "glob_wait" /\ \E n \in TreeNet(page) : GlobResponse(n)
    \/ GlobFinish

Spec == Init /\ [][Next]_vars

(***************************************************************************)
(* extractProjectPath on its own: a project string put together from at    *)
(* most MaxLen pieces, then normalized, and the result normalized again.   *)
(***************************************************************************)
Pieces == {<<t>> : t \in Tokens} \cup {<<"https:", "/", "/", "a", "/">>}

NormAppend(piece) ==
    /\ pc = "idle"
    /\ built < MaxLen
    /\ built' = built + 1
    /\ tool' = "normalize"
    /\ args' = [args EXCEPT !.project = @ \o piece]
    /\ UNCHANGED <<pc, page, hasMore, allFiles, inflight, requested, received, net, outcome>>

NormApply ==
    /\ pc \in {"idle", "normalized"}
    /\ Len(outcome.value) < 2
    /\ pc' = "normalized"
    /\ tool' = "normalize"
    /\ outcome' = ReturnValue(
          Append(outcome.value,
                 extractProjectPath(IF outcome.value = <<>> THEN args.project
                                    ELSE outcome.value[Len(outcome.value)])), 0)
    /\ UNCHANGED <<args, page, hasMore, allFiles, inflight, requested, received, net, built>>

NextNorm == (\E piece \in Pieces : NormAppend(piece)) \/ NormApply

SpecNorm == Init /\ [][NextNorm]_vars

SpecRead == Init /\ [][NextRead]_vars

SpecSearch == Init /\ [][NextSearch]_vars

\* One invocation of any of the five tools.
NextTools ==
    \/ Next
    \/ NextRead
    \/ NextSearch
    \/ pc = "idle" /\ \E a \in ListDirectoryArgs : ListDirectoryRequest(a)
    \/ pc = "list_directory_wait"
          /\ \E n \in SingleCallNet(DirPages) : ListDirectoryResponse(n)
    \/ pc = "idle" /\ \E a \in ListProjectsArgs : ListProjectsRequest(a)
    \/ pc = "list_projects_wait"
          /\ \E n \in SingleCallNet(ProjectPages) : ListProjectsResponse(n)

SpecTools == Init /\ [][NextTools]_vars

NextGateway == pc = "idle" /\ \E n \in GatewayNet : GatewayCall(n)

SpecGateway == Init /\ [][NextGateway]_vars

(***************************************************************************)
(* Properties of globFiles (specification Spec).                           *)
(***************************************************************************)
Succeeded(r) == r.kind = "return" /\ r.ok /\ r.data.present
FailedCall(r) == r.kind = "return" /\ ~(r.ok /\ r.data.present)
Cancelled(r) == r.kind = "throw"
NamedAbortError(e) == e.isError /\ e.name = "AbortError"

LoopOver == pc \in {"glob_post", "done"}
AllSucceeded == \A k \in 1..Len(received) : Succeeded(received[k])

\* The entries of the successful pages received, as a set, and their count.
ReceivedItems ==
    UNION {{received[k].data.value[i] : i \in 1..Len(received[k].data.value)} :
              k \in {j \in 1..Len(received) : Succeeded(received[j])}}
ReceivedBlobs == {it \in ReceivedItems : it.type = "blob"}

RECURSIVE ItemCount(_)
ItemCount(k) ==
    IF k = 0 THEN 0
    ELSE ItemCount(k - 1)
           + (IF Succeeded(received[k]) THEN Len(received[k].data.value) ELSE 0)

\* Collection order: by page, then by position in the page.
Before(p, q) == p[1] < q[1] \/ (p[1] = q[1] /\ p[2] < q[2])

PagesInOrder ==
    /\ Len(requested) = Len(received) + Cardinality(inflight)
    /\ \A k \in 1..Len(requested) : requested[k] = k
    /\ \A k \in 1..(Len(received) - 1) :
          Succeeded(received[k]) /\ Len(received[k].data.value) = PageSize

StopsAtShortPage ==
    (LoopOver /\ AllSucceeded /\ received # <<>>) =>
        /\ Len(received[Len(received)].data.value) < PageSize
        /\ Len(requested) = Len(received)

AllFilesAreTheBlobs ==
    /\ {allFiles[j] : j \in 1..Len(allFiles)} = {it.path : it \in ReceivedBlobs}
    /\ Len(allFiles) = Cardinality(ReceivedBlobs)
    /\ \A j \in 1..(Len(allFiles) - 1) : Before(allFiles[j], allFiles[j + 1])

\* C1 (as amended): pages are requested as 1, 2, 3, ... one after the other,
\* every page before the last received one was a full successful page, the
\* loop ends at the first successful page with fewer than 100 entries as
\* received (k calls for the k-th page), and the candidate list holds, in
\* collection order, the paths of the blob entries of the successful pages
\* (tree entries are not appended).
C1_Pagination == PagesInOrder /\ StopsAtShortPage /\ AllFilesAreTheBlobs

\* C1 as stated: every item of every successful page is appended, so that
\* the candidate list has as many entries as the pages had items.
C1_EveryItemAppended ==
    (LoopOver /\ AllSucceeded) => Len(allFiles) = ItemCount(Len(received))

\* Pages of 100, 100 and 37 entries: three calls, and fewer than 237
\* candidates because the pages held tree entries.
C1_Witness ==
    /\ pc = "done" /\ outcome.status = "returned"
    /\ Len(requested) = 3 /\ AllSucceeded
    /\ ItemCount(3) = 237 /\ Len(allFiles) < 237 /\ Len(allFiles) > 100

\* C2: a failed call (ok = false, or no parsed payload) for page 1 makes
\* globFiles throw its "Failed to fetch files" error and return nothing; a
\* failed call for a later page n ends the loop without an error, the
\* candidates are the blobs of pages 1..n-1, and globFiles returns the list
\* built from them.
C2_FailurePolicy ==
    (received # <<>> /\ FailedCall(received[Len(received)])) =>
        IF Len(received) = 1
        THEN /\ pc = "done"
             /\ outcome.status = "raised"
             /\ outcome.error.msg = "Failed to fetch files"
             /\ outcome.error.status = received[1].status
             /\ outcome.value = <<>>
        ELSE /\ LoopOver
             /\ outcome.status # "raised"
             /\ Len(allFiles) = Cardinality(ReceivedBlobs)
             /\ pc = "done" =>
                   /\ outcome.status = "returned"
                   /\ \A i \in 1..Len(outcome.value) :
                         \E j \in 1..Len(allFiles) : outcome.value[i][4] = allFiles[j]
                   /\ (args.filePattern = "**" /\ args.limit = Given(0)
                          /\ ~args.offset.given) => Len(outcome.value) = Len(allFiles)

\* Two full pages, then the third call fails: the 200 blobs collected are returned.
C2_Witness ==
    /\ pc = "done" /\ Len(received) = 3 /\ FailedCall(received[3])
    /\ outcome.status = "returned" /\ Len(outcome.value) = 200

\* C3: an Error named AbortError thrown by the network call leaves
\* fetchFromGitLabAPI as that same exception, never as a result; on whatever
\* page it happens, globFiles ends by throwing it and returns no list.
C3_CancellationPropagates ==
    /\ \A k \in 1..Len(received) :
          Cancelled(received[k]) => k = Len(received) /\ NamedAbortError(received[k].thrown)
    /\ (received # <<>> /\ net.kind # "response" /\ NamedAbortError(net.thrown)) =>
          /\ Cancelled(received[Len(received)])
          /\ received[Len(received)].thrown = net.thrown
          /\ pc = "done"
          /\ outcome.status = "raised"
          /\ outcome.thrown = net.thrown
          /\ outcome.value = <<>>

\* The call for page 2 is cancelled after a full first page.
C3_Witness ==
    /\ Len(received) = 2 /\ Cancelled(received[2]) /\ allFiles # <<>>
    /\ outcome.status = "raised" /\ outcome.thrown.name = "AbortError"

GlobReturned == pc = "done" /\ tool = "glob_files" /\ outcome.status = "returned"
Matched == matchedFiles(allFiles, args.filePattern)
Limit == Default(args.limit, 100)
Offset == Default(args.offset, 0)

SliceIs(count) ==
    /\ Len(outcome.value) = count
    /\ \A i \in 1..count :
          outcome.value[i] = <<"/", extractProjectPath(args.project), "/", Matched[Offset + i]>>

GatewayDone == pc = "done" /\ tool = "gateway"
Result == received[1]

C5_DataOnlyWhenParsed ==
    (GatewayDone /\ Result.kind = "return") =>
        /\ Result.data.present <=>
              /\ net.kind = "response" /\ Result.ok /\ net.status \in 200..299
              /\ net.ctJson /\ net.body.lines # <<0>> /\ net.body.json.parses
        /\ Result.data.present => Result.data.value = net.body.json.value
        /\ (net.kind = "response" /\ net.status \in 200..299) =>
              Result.ok /\ Result.text = net.body.lines

\* A 200 response that declares JSON and has a body that does not parse.
C5_Witness ==
    /\ GatewayDone /\ net.kind = "response" /\ net.status = 200 /\ net.ctJson
    /\ net.body.lines # <<0>> /\ ~net.body.json.parses
    /\ Result.kind = "return" /\ Result.ok /\ ~Result.data.present
    /\ Result.text = net.body.lines

(***************************************************************************)
(* Properties of extractProjectPath (specification SpecNorm).              *)
(***************************************************************************)
Normalized == tool = "normalize" /\ pc = "normalized"
Once == outcome.value[1]
Twice == outcome.value[2]

\* x is a text that /^https?:\/\/[^/]+\/$/ matches: scheme, "//", a
\* non-empty host without a slash, a slash.
IsSchemeAndHost(x) ==
    /\ Len(x) >= 5
    /\ x[1] = "https:" /\ x[2] = "/" /\ x[3] = "/" /\ x[Len(x)] = "/"
    /\ \A j \in 4..(Len(x) - 1) : x[j] # "/"

StartsWithSchemeAndHost(x) == \E k \in 1..Len(x) : IsSchemeAndHost(SubSeq(x, 1, k))

WithoutOneGit(x) ==
    IF x # <<>> /\ x[Len(x)] = ".git" THEN SubSeq(x, 1, Len(x) - 1) ELSE x

StripsExactlyOne(p, q) ==
    LET body == WithoutOneGit(p)
    IN IF StartsWithSchemeAndHost(body)
       THEN \E k \in 1..Len(body) :
               /\ IsSchemeAndHost(SubSeq(body, 1, k))
               /\ q = SubSeq(body, k + 1, Len(body))
       ELSE q = body

\* C6 (as amended): extractProjectPath removes exactly one trailing ".git"
\* if there is one and then exactly one leading scheme+host prefix if there
\* is one; applying it again changes nothing exactly when the first result
\* neither ends in ".git" nor starts with a scheme+host prefix, so it is not
\* idempotent on "a/a.git.git" or on a URL whose path starts with a URL.
C6_StripsOneOfEach ==
    Normalized =>
        /\ StripsExactlyOne(args.project, Once)
        /\ Len(outcome.value) = 2 =>
              (Twice = Once <=>
                  ~(Once # <<>> /\ Once[Len(Once)] = ".git")
                      /\ ~StartsWithSchemeAndHost(Once))

\* C6 as stated: normalizing a normalized project changes nothing.
C6_Idempotent == (Normalized /\ Len(outcome.value) = 2) => Twice = Once

\* "https://a/a/a.git" gives "a/a", and "a/a" stays "a/a".
C6_Witness ==
    /\ Normalized /\ Len(outcome.value) = 2
    /\ args.project = <<"https:", "/", "/", "a", "/", "a", "/", "a", ".git">>
    /\ Once = <<"a", "/", "a">> /\ Twice = Once

\* "a/a.git.git" gives "a/a.git", and that gives "a/a".
C6_WitnessTwoSuffixes ==
    /\ Normalized /\ Len(outcome.value) = 2
    /\ args.project = <<"a", "/", "a", ".git", ".git">>
    /\ Once = <<"a", "/", "a", ".git">> /\ Twice = <<"a", "/", "a">>

(***************************************************************************)
(* Properties of readFile (specification SpecRead).                        *)
(***************************************************************************)
ReadSettled == pc = "done" /\ tool = "read_file"
ReadOk == ReadSettled /\ received[1].kind = "return" /\ received[1].ok
FileLines == net.body.lines
TotalLines == Len(FileLines)

Clamp(x) == Max(1, Min(TotalLines, x))

\* Lines a..b of the file, each with its absolute line number.
NumberedRange(a, b) == [i \in 1..Max(0, b - a + 1) |-> <<a + i - 1, ": ", FileLines[a + i - 1]>>]

RECURSIVE BytesOfRange(_, _)
BytesOfRange(a, b) ==
    IF b < a THEN 0
    ELSE IF a = b THEN FileLines[a]
    ELSE BytesOfRange(a, b - 1) + 1 + FileLines[b]

\* C7 as stated: both ends of the range are brought into [1, totalLines],
\* and the content is exactly the lines start'..end', numbered.
C7_RangeClamped ==
    (ReadOk /\ outcome.status = "returned" /\ args.read_range.given) =>
        outcome.value.content =
            NumberedRange(Clamp(args.read_range.start), Clamp(args.read_range.end))

\* What the code does hold to: start is raised to 1, end is lowered to
\* totalLines, and for 1 <= start' and 1 <= end the content is the lines
\* start'..end' (none if start' > end'); without a range, every line.
C7_ClampedOneSidedOnly ==
    (ReadOk /\ outcome.status = "returned") =>
        IF ~args.read_range.given
        THEN outcome.value.content = NumberedRange(1, TotalLines)
        ELSE args.read_range.end >= 0 =>
                outcome.value.content =
                    NumberedRange(Max(1, args.read_range.start),
                                  Min(TotalLines, args.read_range.end))

\* Range [1, -1] on a three-line file: the code returns lines 1..2.
C7_NegativeEndWraps ==
    /\ ReadOk /\ outcome.status = "returned" /\ TotalLines = 3
    /\ args.read_range = Range(1, 0 - 1)
    /\ Len(outcome.value.content) = 2

\* The lines readFile selects, as positions of the file: from Max(1, start)
\* to end counted as Array.slice counts it.
SelFirst == IF args.read_range.given THEN Max(1, args.read_range.start) ELSE 1
SelLast ==
    IF ~args.read_range.given THEN TotalLines
    ELSE IF args.read_range.end < 0 THEN Max(0, TotalLines + args.read_range.end)
    ELSE Min(TotalLines, args.read_range.end)
SelBytes == IF SelFirst > TotalLines THEN 0 ELSE BytesOfRange(SelFirst, SelLast)

\* C8: when the call succeeded, readFile throws its size error exactly when
\* the selected lines joined by newlines are more than 131072 bytes; the
\* error reports the file's total line count and no content is returned;
\* at 131072 bytes or fewer it returns every selected line, none cut.
C8_SizeCap ==
    ReadOk =>
        IF SelBytes > 131072
        THEN /\ outcome.status = "raised"
             /\ outcome.error.msg = "File is too large"
             /\ outcome.error.totalLines = TotalLines
             /\ outcome.value = <<>>
        ELSE /\ outcome.status = "returned"
             /\ outcome.value.content =
                   IF SelFirst > TotalLines THEN <<>> ELSE NumberedRange(SelFirst, SelLast)

\* A selection of exactly 131073 bytes fails and reports the three lines.
C8_Witness ==
    /\ ReadOk /\ SelBytes = 131073 /\ TotalLines = 3
    /\ outcome.status = "raised" /\ outcome.error.totalLines = 3

\* A selection of exactly 131072 bytes is returned whole.
C8_WitnessAtCap ==
    /\ ReadOk /\ SelBytes = 131072 /\ outcome.status = "returned"
    /\ Len(outcome.value.content) = 3

(***************************************************************************)
(* Properties of searchCode (specification SpecSearch).                    *)
(***************************************************************************)
SearchReturned ==
    /\ pc = "done" /\ tool = "search_code" /\ outcome.status = "returned"
    /\ received[1].data.present
RawMatches == received[1].data.value
Results == outcome.value
FileOf(item) == <<"/", extractProjectPath(args.project), "/", item.path>>

\* Position in the page of the first match of the file of entry k.
FirstMatchOf(file) ==
    CHOOSE i \in 1..Len(RawMatches) :
        FileOf(RawMatches[i]) = file /\ \A j \in 1..(i - 1) : FileOf(RawMatches[j]) # file

MatchesOf(file) == SelectSeq(RawMatches, LAMBDA it : FileOf(it) = file)
WithFragment(matches) == SelectSeq(matches, LAMBDA it : it.data # EmptyData)

\* What a chunk must be for a match's data: trimmed, cut at 2048 characters
\* with the marker.
ChunkFor(d) ==
    [id |-> d.id, len |-> Min(d.len, 2048), padded |-> FALSE, marker |-> d.len > 2048]

OneEntryPerFile ==
    /\ {Results[k].file : k \in 1..Len(Results)} =
          {FileOf(RawMatches[i]) : i \in 1..Len(RawMatches)}
    /\ \A k, l \in 1..Len(Results) : Results[k].file = Results[l].file => k = l

InOrderOfFirstAppearance ==
    \A k, l \in 1..Len(Results) :
        k < l => FirstMatchOf(Results[k].file) < FirstMatchOf(Results[l].file)

ChunksAre(pick(_)) ==
    \A k \in 1..Len(Results) :
        LET ms == pick(MatchesOf(Results[k].file))
        IN Results[k].chunks = [i \in 1..Len(ms) |-> ChunkFor(ms[i].data)]

AllMatches(ms) == ms

\* C10 (as amended): the result has exactly one entry per distinct file
\* path of the page, in order of first appearance; each entry's chunks are
\* the fragments of that file's matches that have non-empty data, in the
\* order reported (a match with empty data adds no chunk); totalCount is the
\* number of raw matches of the page.
C10_GroupedByFile ==
    SearchReturned =>
        /\ OneEntryPerFile
        /\ InOrderOfFirstAppearance
        /\ ChunksAre(WithFragment)
        /\ outcome.total = Len(RawMatches)

\* C10 as stated: every raw match of a file gives a chunk of its entry.
C10_ChunkPerMatch == SearchReturned => ChunksAre(AllMatches)

\* Matches g, f, g: entries g then f, and g has its two chunks in order.
C10_Witness ==
    /\ SearchReturned /\ Len(RawMatches) = 3 /\ outcome.total = 3
    /\ RawMatches[1].path = "g" /\ RawMatches[2].path = "f" /\ RawMatches[3].path = "g"
    /\ RawMatches[1].data = Text("z", 2049, FALSE) /\ RawMatches[3].data = Text("x", 5, TRUE)
    /\ RawMatches[2].data # EmptyData
    /\ Len(Results) = 2 /\ Results[1].file[4] = "g" /\ Results[2].file[4] = "f"
    /\ Results[1].chunks = <<ChunkFor(Text("z", 2049, FALSE)), ChunkFor(Text("x", 5, TRUE))>>

(***************************************************************************)
(* Gateway calls within one tool invocation                                *)
(***************************************************************************)
SingleCallTools == {"read_file", "list_directory", "list_projects", "search_code"}

\* The call's failure as the gateway reports it: ok=false, or the
\* cancellation it rethrows.
CallFailed(r) == r.kind = "throw" \/ ~r.ok

FullSuccessfulPage(r) == Succeeded(r) /\ Len(r.data.value) = PageSize

OneCallAtATime ==
    /\ Cardinality(inflight) <= 1
    /\ Len(requested) = Len(received) + Cardinality(inflight)

NoPageRequestedTwice ==
    \A i, j \in 1..Len(requested) : requested[i] = requested[j] => i = j

\* Every request of globFiles after the first asks for the page after a
\* page already received, and that page was a full successful one.
NextPageOnlyAfterFullPage ==
    tool = "glob_files" =>
        \A k \in 2..Len(requested) :
            /\ requested[k] = requested[k - 1] + 1
            /\ k - 1 <= Len(received)
            /\ FullSuccessfulPage(received[k - 1])

ExactlyOneCall ==
    tool \in SingleCallTools =>
        /\ Len(requested) = 1
        /\ pc = "done" =>
              /\ Len(received) = 1 /\ inflight = {}
              /\ CallFailed(received[1]) => outcome.status = "raised"
              /\ tool \in {"list_directory", "list_projects"} /\ FailedCall(received[1])
                    => outcome.status = "raised"

\* C11: within one tool invocation at most one gateway call is in flight
\* and each call is issued only when every earlier one has settled; no page
\* number is requested twice; globFiles requests page n+1 only after page
\* n's response was received and was a full successful page; readFile,
\* listDirectory, listProjects and searchCode issue exactly one call, and
\* when that call fails (ok=false or cancellation) the operation throws.
C11_SequentialNoRetry ==
    /\ OneCallAtATime
    /\ NoPageRequestedTwice
    /\ NextPageOnlyAfterFullPage
    /\ ExactlyOneCall

\* globFiles has page 3 in flight after two full successful pages.
C11_Witness ==
    /\ tool = "glob_files" /\ requested = <<1, 2, 3>> /\ inflight = {3}
    /\ Len(received) = 2
    /\ FullSuccessfulPage(received[1]) /\ FullSuccessfulPage(received[2])

\* Each single-call tool ends with its one call failed and the operation
\* thrown; globFiles ends after a failed page 2 that was not asked for again.
C11_SingleCallFailed(t) ==
    /\ tool = t /\ pc = "done" /\ Len(requested) = 1
    /\ received[1].kind = "return" /\ ~received[1].ok
    /\ outcome.status = "raised"

C11_ReadFailed == C11_SingleCallFailed("read_file")
C11_SearchFailed == C11_SingleCallFailed("search_code")
C11_ListDirectoryFailed == C11_SingleCallFailed("list_directory")
C11_ListProjectsFailed == C11_SingleCallFailed("list_projects")
C11_GlobPageTwoFailed ==
    /\ tool = "glob_files" /\ pc = "done" /\ requested = <<1, 2>>
    /\ FailedCall(received[2]) /\ outcome.status = "returned"

====
